---- MODULE Spec2Model ----
(***************************************************************************)
(* Model of kawin/mobility_fitting/manual_fitting.py:                      *)
(*   - least_squares_fit        (AICC small-sample correction)             *)
(*   - SiteFractionGenerator    (composition from mole-fraction conditions)*)
(*   - EquilibriumSiteFractionGenerator (cache of models/phase records)    *)
(*   - fit                      (two fitting passes, Q then D0)            *)
(* Floating-point values the code never inspects (site fractions, fitted   *)
(* coefficients, target values) are carried as identities of where they    *)
(* came from; AICC scores are drawn from a small totally ordered set.      *)
(***************************************************************************)
EXTENDS Integers, Sequences, FiniteSets, TLC

VARIABLES
    \* ---- least_squares_fit: successive calls on one data set ----
    lsN,            \* n = len(A), the number of observations
    lsP,            \* p, the penalty multiplier
    lsKs,           \* k = len(A[0]) of each call still to be made / made
    lsOut,          \* the correction computed by each call so far
    \* ---- SiteFractionGenerator.__call__ ----
    sfgComponents,  \* the components argument
    sfgConditions,  \* the conditions dict, in iteration order
    sfgComposition, \* the composition handed to create_site_fractions
    sfgPc,
    \* ---- EquilibriumSiteFractionGenerator ----
    models,             \* self.models
    phase_records,      \* self.phase_records
    constituents,       \* self.constituents
    nextObj,            \* identity of the next object constructed
    calls,              \* number of method calls made so far
    lastCall,           \* arguments and outcome of the latest __call__
    \* ---- fit: arguments ----
    datasets,           \* the dataset records, in order
    argComponents,      \* the components argument
    Q_test_models,
    D0_test_models,
    dbSymbols,          \* indices i whose name _vname(i) is in database.symbols
    \* ---- fit: locals ----
    fit_components,         \* components as of line 118
    fitted_mobility_model,  \* line 120
    symbols,                \* line 121
    vIndex,                 \* line 122
    data_key,               \* position of the pass in data_types: 1 = Q, 2 = D0
    site_fractions,         \* line 153
    Y,                      \* line 154
    fitted_models,          \* line 188
    aiccs,                  \* line 189
    index,                  \* line 198
    best_model,             \* line 199
    best_fit,               \* line 200
    pc,                     \* the next step of fit
    raised,                 \* the exception that left fit, if any
    \* ---- fit: records kept for the properties ----
    sfgArgs,            \* the components handed to site_fraction_generator
    passStart,          \* the accumulators as the current pass found them
    chosen              \* what each completed pass handed to the accumulator

lsVars == <<lsN, lsP, lsKs, lsOut>>
sfgVars == <<sfgComponents, sfgConditions, sfgComposition, sfgPc>>
eqVars == <<models, phase_records, constituents, nextObj, calls, lastCall>>

fitArgs == <<datasets, argComponents, Q_test_models, D0_test_models, dbSymbols>>
fitAccumulators == <<fitted_mobility_model, symbols, vIndex>>
fitPassLocals == <<site_fractions, Y, fitted_models, aiccs, index,
                   best_model, best_fit>>
fitVars == <<fitArgs, fit_components, fitAccumulators, data_key, fitPassLocals,
             pc, raised, sfgArgs, passStart, chosen>>

vars == <<lsVars, sfgVars, eqVars, fitVars>>

-----------------------------------------------------------------------------
(* Bounds of the model.                                                    *)
MaxObs == 6         \* largest number of observations n
MaxTerms == 4       \* largest number of terms k of a candidate
MaxPenalty == 2     \* largest penalty multiplier p
MaxConds == 2       \* largest number of entries of a conditions dict
MaxComps == 2       \* longest components collection passed to a generator
MaxCalls == 3       \* number of calls made on one generator object
MaxRecords == 2     \* largest number of records of a dataset
MaxScore == 1       \* AICC scores are drawn from 0..MaxScore

-----------------------------------------------------------------------------
(* Each specification below runs one part of the file; the variables of    *)
(* the other parts stay at these values.                                   *)
IdleLS == lsN = 1 /\ lsP = 1 /\ lsKs = <<>> /\ lsOut = <<>>

IdleSFG ==
    /\ sfgComponents = {} /\ sfgConditions = <<>>
    /\ sfgComposition = <<>> /\ sfgPc = "idle"

IdleEQ ==
    /\ models = <<>> /\ phase_records = <<>> /\ constituents = <<>>
    /\ nextObj = 0 /\ calls = 0
    /\ lastCall = [outcome |-> "none"]

IdleFit ==
    /\ datasets = <<>> /\ argComponents = {}
    /\ Q_test_models = <<>> /\ D0_test_models = <<>> /\ dbSymbols = {}
    /\ fit_components = {} /\ fitted_mobility_model = <<>> /\ symbols = <<>>
    /\ vIndex = 0 /\ data_key = 0
    /\ site_fractions = <<>> /\ Y = <<>> /\ fitted_models = <<>>
    /\ aiccs = <<>> /\ index = 0 /\ best_model = <<>> /\ best_fit = <<>>
    /\ pc = "idle" /\ raised = "none"
    /\ sfgArgs = {} /\ passStart = <<>> /\ chosen = <<>>

-----------------------------------------------------------------------------
(* least_squares_fit, lines 76-96.                                         *)

\* A divisor that applies the textbook formula on both sides of the boundary.
AiccDivisor_unified(n, pk) == n - pk - 1

\* A divisor whose branch test excludes the boundary pk = n-1.
AiccDivisor_strict(n, pk) == IF pk > n - 1 THEN -n + pk + 3 ELSE n - pk - 1

\* Lines 91-94: the divisor of the correction, by branch.
AiccDivisor(n, pk) == IF pk >= n - 1 THEN -n + pk + 3 ELSE n - pk - 1

\* Lines 91-94: which branch of the if is taken.
AiccBranch(n, pk) == IF pk >= n - 1 THEN "pk>=n-1" ELSE "pk<n-1"

\* Lines 92, 94: the dividend of the correction.
AiccDividend(pk) == 2 * pk * pk + 2 * pk

Sign(x) == IF x > 0 THEN 1 ELSE IF x < 0 THEN -1 ELSE 0

\* Lines 85-95: the correction of one call, kept as an exact fraction.  A zero
\* divisor is Python's ZeroDivisionError.
AiccCorrection(n, k, p) ==
    LET pk == p * k
        den == AiccDivisor(n, pk)
        num == AiccDividend(pk)
    IN  [n |-> n, k |-> k, pk |-> pk, branch |-> AiccBranch(n, pk),
         num |-> num, den |-> den,
         raised |-> IF den = 0 THEN "ZeroDivisionError" ELSE "none",
         sign |-> IF den = 0 THEN 0 ELSE Sign(num) * Sign(den)]

InitLS ==
    /\ IdleSFG /\ IdleEQ /\ IdleFit
    /\ lsN \in 1..MaxObs
    /\ lsP \in 1..MaxPenalty
    /\ lsKs \in [1..2 -> 1..MaxTerms]
    /\ lsOut = <<>>

\* One call least_squares_fit(A, b, p) for the next candidate design matrix.
least_squares_fit ==
    /\ Len(lsOut) < Len(lsKs)
    /\ \A i \in 1..Len(lsOut) : lsOut[i].raised = "none"
    /\ lsOut' = Append(lsOut, AiccCorrection(lsN, lsKs[Len(lsOut) + 1], lsP))
    /\ UNCHANGED <<lsN, lsP, lsKs, sfgVars, eqVars, fitVars>>

NextLS == least_squares_fit

SpecLS == InitLS /\ [][NextLS]_vars

-----------------------------------------------------------------------------
(* Claims about least_squares_fit.                                         *)

\* C5 (as stated): for the same n, the correction computed with pk = n-2 and
\* the correction computed with pk = n differ in sign.
C5_SignDiffers ==
    \A i, j \in 1..Len(lsOut) :
        (lsOut[i].pk = lsN - 2 /\ lsOut[j].pk = lsN)
            => lsOut[i].sign # lsOut[j].sign

\* C5 (amended): for the same n, the correction computed with pk = n-2
\* (branch pk < n-1, divisor n - pk - 1 = 1) and the one computed with pk = n
\* (branch pk >= n-1, divisor -n + pk + 3 = 3) are both strictly positive.
C5_SameSign ==
    \A i, j \in 1..Len(lsOut) :
        (lsOut[i].pk = lsN - 2 /\ lsOut[j].pk = lsN)
            => /\ lsOut[i].branch = "pk<n-1" /\ lsOut[i].den = 1
               /\ lsOut[j].branch = "pk>=n-1" /\ lsOut[j].den = 3
               /\ lsOut[i].sign = 1 /\ lsOut[j].sign = 1

C5_Witness ==
    \E i, j \in 1..Len(lsOut) : lsOut[i].pk = lsN - 2 /\ lsOut[j].pk = lsN

\* C6: for n, k, p >= 1 the correction divides 2(pk)^2 + 2pk by n - pk - 1
\* exactly when pk < n-1 and by -n + pk + 3 exactly when pk >= n-1, and the
\* divisor used is never zero, the boundary pk = n-1 included.
C6_DivisorNonZero ==
    \A i \in 1..Len(lsOut) :
        LET r == lsOut[i] IN
        /\ r.num = 2 * r.pk * r.pk + 2 * r.pk
        /\ (r.pk < r.n - 1) => r.den = r.n - r.pk - 1
        /\ (r.pk >= r.n - 1) => r.den = -r.n + r.pk + 3
        /\ r.den # 0
        /\ r.raised = "none"

C6_Witness ==
    \E i \in 1..Len(lsOut) : lsOut[i].pk = lsOut[i].n - 1 /\ lsOut[i].den = 2

-----------------------------------------------------------------------------
(* SiteFractionGenerator.__call__, lines 61-74.                            *)
(* A species name is the tuple of its characters, so that key.name[2:] is  *)
(* a slice.  Fractions are integers in tenths: 10 is the code's 1.         *)

VA == <<"V", "A">>
Species == {<<"A">>, <<"B">>, <<"C">>}

\* v.X(c): a MoleFraction state variable named "X_" + c.
MoleFraction(c) == [type |-> "MoleFraction", name |-> <<"X", "_">> \o c]

\* v.T: a state variable that is no MoleFraction.
Temperature == [type |-> "StateVariable", name |-> <<"T">>]

\* Line 72: key.name[2:].
NameSlice2(name) == SubSeq(name, 3, Len(name))

\* Lines 70-72: one mole-fraction condition applied to the composition.
ApplyMoleFraction(composition, key, val) ==
    [c \in DOMAIN composition \cup {NameSlice2(key.name)} |->
        IF c = NameSlice2(key.name) THEN val ELSE composition[c] - val]

\* Lines 68-72: the loop over conditions.items(), from entry i on.
RECURSIVE ApplyConditions(_, _, _)
ApplyConditions(composition, conditions, i) ==
    IF i > Len(conditions) THEN composition
    ELSE LET key == conditions[i][1]
             val == conditions[i][2]
         IN  ApplyConditions(
                 IF key.type = "MoleFraction"
                     THEN ApplyMoleFraction(composition, key, val)
                     ELSE composition,
                 conditions, i + 1)

\* Lines 66-67: every component but VA starts at 1.
InitialComposition(components) == [c \in components \ {VA} |-> 10]

\* The conditions dicts tried: distinct keys, in any insertion order; a mole
\* fraction names a component of the call, one component at least is left
\* without a condition, and the fractions sum to at most 1.
ConditionKeys(components) ==
    {MoleFraction(c) : c \in components \ {VA}} \cup {Temperature}

ConditionValues(key) == IF key.type = "MoleFraction" THEN {2, 3} ELSE {1000}

RECURSIVE SumFractions(_, _)
SumFractions(conditions, i) ==
    IF i > Len(conditions) THEN 0
    ELSE (IF conditions[i][1].type = "MoleFraction" THEN conditions[i][2] ELSE 0)
         + SumFractions(conditions, i + 1)

ConditionDicts(components) ==
    UNION { { cs \in [1..len -> {<<k, x>> : k \in ConditionKeys(components),
                                            x \in {2, 3, 1000}}] :
                /\ \A i \in 1..len : cs[i][2] \in ConditionValues(cs[i][1])
                /\ \A i, j \in 1..len : cs[i][1] = cs[j][1] => i = j
                /\ \E c \in components \ {VA} :
                       \A i \in 1..len : cs[i][1] # MoleFraction(c)
                /\ SumFractions(cs, 1) <= 10 }
            : len \in 0..MaxConds }

InitSFG ==
    /\ IdleLS /\ IdleEQ /\ IdleFit
    /\ sfgComponents \in SUBSET (Species \cup {VA})
    /\ sfgConditions \in ConditionDicts(sfgComponents)
    /\ sfgComposition = <<>>
    /\ sfgPc = "ready"

\* SiteFractionGenerator.__call__(components, conditions), up to the call of
\* create_site_fractions(composition).
SiteFractionGenerator_call ==
    /\ sfgPc = "ready"
    /\ sfgComposition' =
           ApplyConditions(InitialComposition(sfgComponents), sfgConditions, 1)
    /\ sfgPc' = "done"
    /\ UNCHANGED <<sfgComponents, sfgConditions, lsVars, eqVars, fitVars>>

NextSFG == SiteFractionGenerator_call

SpecSFG == InitSFG /\ [][NextSFG]_vars

\* C7: the composition has no VA key, every component named by a mole-fraction
\* condition holds exactly that condition's value, and every other component
\* holds 1 minus the sum of all mole-fraction values, for any number of
\* mole-fraction conditions in any iteration order.
C7_Composition ==
    sfgPc = "done" =>
        LET named == {NameSlice2(sfgConditions[i][1].name) :
                        i \in {j \in 1..Len(sfgConditions) :
                                 sfgConditions[j][1].type = "MoleFraction"}}
        IN  /\ VA \notin DOMAIN sfgComposition
            /\ \A i \in 1..Len(sfgConditions) :
                 sfgConditions[i][1].type = "MoleFraction" =>
                   sfgComposition[NameSlice2(sfgConditions[i][1].name)]
                       = sfgConditions[i][2]
            /\ \A c \in DOMAIN sfgComposition \ named :
                 sfgComposition[c] = 10 - SumFractions(sfgConditions, 1)

-----------------------------------------------------------------------------
(* EquilibriumSiteFractionGenerator, lines 10-59.                          *)
(* Component names are strings here, and calls name the components A and   *)
(* VA of a phase (A,B)(VA).  The database, Model,                          *)
(* PhaseRecordFactory and local_equilibrium are outside this file: a       *)
(* constructed object is known by a fresh identity and by the arguments it *)
(* was constructed from.  Model(...) and local_equilibrium(...) either      *)
(* return or raise; PhaseRecordFactory(...), given what Model(...) has      *)
(* accepted, returns.                                                      *)

Components == {"A", "VA"}

\* Python's order on these strings.
StrRank(c) == CASE c = "A" -> 1 [] c = "B" -> 2 [] c = "VA" -> 3

\* sorted(...) of a list: insertion of each element into a sorted list.
RECURSIVE Insert(_, _)
Insert(x, sortedSeq) ==
    IF sortedSeq = <<>> THEN <<x>>
    ELSE IF StrRank(x) <= StrRank(Head(sortedSeq)) THEN <<x>> \o sortedSeq
    ELSE <<Head(sortedSeq)>> \o Insert(x, Tail(sortedSeq))

RECURSIVE Sorted(_)
Sorted(seq) == IF seq = <<>> THEN <<>> ELSE Insert(Head(seq), Sorted(Tail(seq)))

\* sorted(...) of a set.
RECURSIVE SortedSet(_)
SortedSet(S) ==
    IF S = {} THEN <<>>
    ELSE LET x == CHOOSE y \in S : \A z \in S : StrRank(y) <= StrRank(z)
         IN  <<x>> \o SortedSet(S \ {x})

ToSet(seq) == {seq[i] : i \in 1..Len(seq)}

\* db.phases[phase].constituents: the sublattices of the target phase.
PhaseSublattices == <<{"A", "B"}, {"VA"}>>

\* Lines 21 and 40: [c for cons in sublattices for c in sorted(list(cons))].
RECURSIVE Flatten(_, _)
Flatten(sublattices, i) ==
    IF i > Len(sublattices) THEN <<>>
    ELSE SortedSet(sublattices[i]) \o Flatten(sublattices, i + 1)

\* Line 21: self.full_constituents.
full_constituents == Flatten(PhaseSublattices, 1)

\* Model(db, comps, phase).constituents: the sublattices restricted to comps.
ModelSublattices(comps) ==
    [i \in 1..Len(PhaseSublattices) |-> PhaseSublattices[i] \cap ToSet(comps)]

\* Lines 30-32: _generate_comps_key.
GenerateCompsKey(components) ==
    LET comps == Sorted(components)
    IN  [active_comps |-> ToSet(comps), comps |-> comps]

\* Lines 38-40 with the test of line 37 dropped: the three entries are built
\* on every call.
GeneratePhaseRecords_always(components) ==
    LET k == GenerateCompsKey(components) IN
    [models |-> [x \in DOMAIN models \cup {k.active_comps} |->
                    IF x = k.active_comps
                        THEN [obj |-> <<"Model", nextObj>>, comps |-> k.comps]
                        ELSE models[x]],
     phase_records |-> [x \in DOMAIN phase_records \cup {k.active_comps} |->
                    IF x = k.active_comps
                        THEN [obj |-> <<"PhaseRecordFactory", nextObj>>,
                              comps |-> k.comps,
                              models |-> <<"Model", nextObj>>]
                        ELSE phase_records[x]],
     constituents |-> [x \in DOMAIN constituents \cup {k.active_comps} |->
                    IF x = k.active_comps
                        THEN Flatten(ModelSublattices(k.comps), 1)
                        ELSE constituents[x]],
     nextObj |-> nextObj + 1]

\* Lines 34-40: _generate_phase_records, when no constructor raises.
GeneratePhaseRecords(components) ==
    LET k == GenerateCompsKey(components) IN
    IF k.active_comps \notin DOMAIN models
    THEN
    [models |-> (k.active_comps :>
                    [obj |-> <<"Model", nextObj>>, comps |-> k.comps]) @@ models,
     phase_records |-> (k.active_comps :>
                    [obj |-> <<"PhaseRecordFactory", nextObj>>,
                     comps |-> k.comps,
                     models |-> <<"Model", nextObj>>]) @@ phase_records,
     constituents |-> (k.active_comps :>
                    Flatten(ModelSublattices(k.comps), 1)) @@ constituents,
     nextObj |-> nextObj + 1]
    ELSE
    [models |-> models, phase_records |-> phase_records,
     constituents |-> constituents, nextObj |-> nextObj]

\* Lines 56-58: the returned dict; a value read from the composition set is
\* "dof", a value filled in for an absent constituent is "zero".
SiteFractions(active) ==
    [c \in ToSet(active) \cup ToSet(full_constituents) |->
        IF c \in ToSet(active) THEN "dof" ELSE "zero"]

\* The components collections tried: any list, in any order, with repeats.
ComponentLists == UNION {[1..len -> Components] : len \in 0..MaxComps}

InitEQ ==
    /\ IdleLS /\ IdleSFG /\ IdleFit
    /\ models = <<>> /\ phase_records = <<>> /\ constituents = <<>>
    /\ nextObj = 0 /\ calls = 0
    /\ lastCall = [outcome |-> "none"]

\* __call__ when Model(...) raises on a cache miss (line 38): nothing is stored.
CallModelRaises ==
    /\ calls < MaxCalls
    /\ \E components \in ComponentLists :
        /\ GenerateCompsKey(components).active_comps \notin DOMAIN models
        /\ lastCall' = [outcome |-> "Model raised", components |-> components]
    /\ calls' = calls + 1
    /\ UNCHANGED <<models, phase_records, constituents, nextObj,
                   lsVars, sfgVars, fitVars>>

\* __call__, lines 42-59; local_equilibrium (line 55) returns or raises.
Call ==
    /\ calls < MaxCalls
    /\ \E components \in ComponentLists, solved \in BOOLEAN :
        LET k == GenerateCompsKey(components)
            cache == GeneratePhaseRecords(components)
        IN  /\ models' = cache.models
            /\ phase_records' = cache.phase_records
            /\ constituents' = cache.constituents
            /\ nextObj' = cache.nextObj
            /\ lastCall' =
                 [outcome |-> IF solved THEN "returned"
                              ELSE "local_equilibrium raised",
                  components |-> components,
                  comps |-> k.comps,
                  models |-> cache.models[k.active_comps],
                  phase_records |-> cache.phase_records[k.active_comps],
                  sfg |-> IF solved
                          THEN SiteFractions(cache.constituents[k.active_comps])
                          ELSE <<>>]
    /\ calls' = calls + 1
    /\ UNCHANGED <<lsVars, sfgVars, fitVars>>

NextEQ ==
    \/ CallModelRaises
    \/ Call

SpecEQ == InitEQ /\ [][NextEQ]_vars

\* The three cache maps have the same keys.
C1_KeysAgree ==
    /\ DOMAIN models = DOMAIN phase_records
    /\ DOMAIN models = DOMAIN constituents

\* The context a call used is the one cached under the set of its components.
C1_CanonicalKey ==
    lastCall.outcome \in {"returned", "local_equilibrium raised"} =>
        /\ ToSet(lastCall.components) \in DOMAIN models
        /\ lastCall.models = models[ToSet(lastCall.components)]
        /\ lastCall.phase_records = phase_records[ToSet(lastCall.components)]

\* A step keeps every cached entry as it is.
C1_NeverReplaced ==
    \A k \in DOMAIN models :
        /\ k \in DOMAIN models'
        /\ models'[k] = models[k]
        /\ phase_records'[k] = phase_records[k]
        /\ constituents'[k] = constituents[k]

-----------------------------------------------------------------------------
(* fit, lines 98-223.                                                      *)
(* Component names are strings.  An output tag is the tuple of its tokens: *)
(* <<"TRACER_Q", "A">> is 'TRACER_Q_A'.  A site-fraction row and a target  *)
(* value are known by the record and the position they came from, a fitted *)
(* coefficient by the pass, the candidate and the position it was fitted   *)
(* for.                                                                    *)

Phase == "FCC_A1"
DiffusingSpecies == "A"

NoSolver ==
    [present |-> FALSE, sublattice_configurations |-> 0,
     sublattice_occupancies |-> 0]

Solver(n) ==
    [present |-> TRUE, sublattice_configurations |-> n,
     sublattice_occupancies |-> n]

\* The dataset records a dataset is made of: 'values' and the two solver
\* lists are given by their flattened lengths.
RecordOptions == <<
    [components |-> {"A", "B"}, phases |-> <<"FCC_A1">>,
     output |-> <<"TRACER_Q", "A">>, values |-> 1, solver |-> NoSolver],
    [components |-> {"A", "B", "VA"}, phases |-> <<"FCC_A1">>,
     output |-> <<"TRACER_Q", "A">>, values |-> 2, solver |-> Solver(2)],
    [components |-> {"A", "B", "VA"}, phases |-> <<"FCC_A1">>,
     output |-> <<"TRACER_Q", "A">>, values |-> 2, solver |-> Solver(1)],
    [components |-> {"A", "B", "VA"}, phases |-> <<"FCC_A1">>,
     output |-> <<"TRACER_Q", "A">>, values |-> 1, solver |-> Solver(2)],
    [components |-> {"A", "VA"}, phases |-> <<"FCC_A1">>,
     output |-> <<"TRACER_D0", "A">>, values |-> 2, solver |-> NoSolver],
    [components |-> {"A", "B", "VA"}, phases |-> <<"FCC_A1">>,
     output |-> <<"TRACER_D0", "A">>, values |-> 1, solver |-> Solver(1)],
    [components |-> {"A", "C", "VA"}, phases |-> <<"FCC_A1">>,
     output |-> <<"TRACER_Q", "A">>, values |-> 1, solver |-> NoSolver],
    [components |-> {"A", "VA"}, phases |-> <<"FCC_A1", "BCC_A2">>,
     output |-> <<"TRACER_Q", "A">>, values |-> 1, solver |-> NoSolver],
    [components |-> {"A", "B", "VA"}, phases |-> <<"FCC_A1">>,
     output |-> <<"TRACER_D0", "B">>, values |-> 1, solver |-> NoSolver] >>

\* The records of RecordOptions at the positions I, in their order.
RECURSIVE RecordsAt(_, _)
RecordsAt(I, n) ==
    IF n = 0 THEN <<>>
    ELSE IF n \in I THEN Append(RecordsAt(I, n - 1), RecordOptions[n])
    ELSE RecordsAt(I, n - 1)

DatasetOptions ==
    { RecordsAt(I, Len(RecordOptions)) :
        I \in {J \in SUBSET (1..Len(RecordOptions)) : Cardinality(J) <= MaxRecords} }

\* MobilityTerm keys used by the candidate models.
T0 == [constituent_array |-> <<"A">>, order |-> 0]
T1 == [constituent_array |-> <<"A", "B">>, order |-> 0]
T2 == [constituent_array |-> <<"A", "B">>, order |-> 1]

\* The lists of candidate term sets tried for Q_test_models, D0_test_models.
TestModelOptions ==
    { << <<T0>> >>,
      << <<T0>>, <<T0, T1>> >>,
      << <<T0, T1>>, <<T1, T1>> >>,
      << <<T2, T0>>, <<T1>> >> }

\* The sets of indices of the VV-names already in database.symbols.
DatabaseOptions == { {}, {0, 2} }

Min(a, b) == IF a <= b THEN a ELSE b

SetMax(S) == CHOOSE x \in S : \A y \in S : y <= x

\* utils._vname: 'VV' followed by the index in four digits.
_vname(i) == <<"V", "V", i \div 1000, (i \div 100) % 10, (i \div 10) % 10, i % 10>>

\* utils.find_last_variable: the first index after the last one in use.
find_last_variable(db) == IF db = {} THEN 0 ELSE SetMax(db) + 1

\* utils.MobilityTerm(constituent_array, order): the expression starts at 0,
\* the empty sum.
MobilityTerm(constituent_array, order) ==
    [constituent_array |-> constituent_array, order |-> order, expr |-> <<>>]

\* utils.MobilityTerm.__eq__: the constituent array and the order agree.
TermEq(a, b) == a.constituent_array = b.constituent_array /\ a.order = b.order

\* Lines 209, 212: 'term in list' and list.index(term).
TermIn(term, list) == \E i \in 1..Len(list) : TermEq(list[i], term)

TermIndex(list, term) ==
    CHOOSE i \in 1..Len(list) :
        /\ TermEq(list[i], term)
        /\ \A j \in 1..(i - 1) : ~TermEq(list[j], term)

\* symengine.Piecewise((value, And(lo <= v.T, v.T < hi)), (0, True)).
Piecewise(value, lo, hi) == [piecewise |-> value, lo |-> lo, hi |-> hi]

\* dict[key] = value.
DictSet(d, key, value) ==
    [x \in DOMAIN d \cup {key} |-> IF x = key THEN value ELSE d[x]]

\* Lines 143-146: data_types, in dict order.
data_types ==
    << [key |-> "Q", marker |-> "TRACER_Q", transform |-> "-x",
        multiplier |-> "1", test_models |-> Q_test_models],
       [key |-> "D0", marker |-> "TRACER_D0", transform |-> "8.314*log(x)",
        multiplier |-> "T", test_models |-> D0_test_models] >>

\* Lines 125-134: q_query / d0_query on one record.
Query(d, marker) ==
    /\ d.components \subseteq fit_components
    /\ Len(d.phases) = 1 /\ d.phases[1] = Phase
    /\ \E i \in 1..Len(d.output) : d.output[i] = marker
    /\ d.output[Len(d.output)] = DiffusingSpecies

\* Line 150: datasets.search(query), as positions in datasets.
RECURSIVE Search(_, _)
Search(marker, n) ==
    IF n = 0 THEN <<>>
    ELSE IF Query(datasets[n], marker) THEN Append(Search(marker, n - 1), n)
    ELSE Search(marker, n - 1)

\* Lines 167-183: the site-fraction rows one record contributes.
RowsOf(r) ==
    LET d == datasets[r] IN
    IF d.solver.present
    THEN [j \in 1..Min(d.solver.sublattice_configurations,
                       d.solver.sublattice_occupancies) |->
            [rec |-> r, i |-> j, from |-> "solver"]]
    ELSE [j \in 1..d.values |->
            [rec |-> r, i |-> j, from |-> "site_fraction_generator"]]

\* Line 162: y_sub of one record.
TargetsOf(r, transform) ==
    [j \in 1..datasets[r].values |-> [rec |-> r, i |-> j, transform |-> transform]]

\* Lines 155-185: site_fractions and Y after the first k records of data.
RECURSIVE RowsAfter(_, _)
RowsAfter(data, k) ==
    IF k = 0 THEN <<>> ELSE RowsAfter(data, k - 1) \o RowsOf(data[k])

RECURSIVE TargetsAfter(_, _, _)
TargetsAfter(data, k, transform) ==
    IF k = 0 THEN <<>>
    ELSE TargetsAfter(data, k - 1, transform) \o TargetsOf(data[k], transform)

\* Line 182: the components handed to site_fraction_generator by the first k
\* records of data.
GeneratorArgs(data, k) ==
    { datasets[data[i]].components :
        i \in {j \in 1..k : ~datasets[data[j]].solver.present} }

\* np.argmin with a comparison that lets a later equal score win.
RECURSIVE ArgMinFrom_last(_, _, _)
ArgMinFrom_last(a, i, best) ==
    IF i > Len(a) THEN best
    ELSE ArgMinFrom_last(a, i + 1, IF a[i] <= a[best] THEN i ELSE best)

\* Line 198: np.argmin, a scan that keeps the first smallest score.
RECURSIVE ArgMinFrom(_, _, _)
ArgMinFrom(a, i, best) ==
    IF i > Len(a) THEN best
    ELSE ArgMinFrom(a, i + 1, IF a[i] < a[best] THEN i ELSE best)

ArgMin_last(a) == ArgMinFrom_last(a, 2, 1)

ArgMin(a) == ArgMinFrom(a, 2, 1)

\* Line 82: the coefficient vector least squares returns for a candidate of
\* k terms.
Coefficients(pass, cand, k) ==
    [j \in 1..k |-> [pass |-> pass, cand |-> cand, pos |-> j]]

\* Lines 209-217 without the membership test: a term is appended every time.
StoreTerm_alwaysAppend(acc, term, coef, multiplier) ==
    LET list == Append(acc.fitted_mobility_model,
                       MobilityTerm(term.constituent_array, term.order))
        at == TermIndex(list, term)
        var_name == _vname(acc.vIndex)
    IN  [fitted_mobility_model |->
            [list EXCEPT ![at].expr = Append(@, <<var_name, multiplier>>)],
         symbols |-> DictSet(acc.symbols, var_name, Piecewise(coef, 1, 10000)),
         vIndex |-> acc.vIndex + 1]

\* Lines 209-216 without line 217: the index is not advanced.
StoreTerm_sameIndex(acc, term, coef, multiplier) ==
    LET list == IF ~TermIn(term, acc.fitted_mobility_model)
                THEN Append(acc.fitted_mobility_model,
                            MobilityTerm(term.constituent_array, term.order))
                ELSE acc.fitted_mobility_model
        at == TermIndex(list, term)
        var_name == _vname(acc.vIndex)
    IN  [fitted_mobility_model |->
            [list EXCEPT ![at].expr = Append(@, <<var_name, multiplier>>)],
         symbols |-> DictSet(acc.symbols, var_name, Piecewise(coef, 1, 10000)),
         vIndex |-> acc.vIndex]

\* Lines 209-217: one (term, coef) pair stored.
StoreTerm(acc, term, coef, multiplier) ==
    LET list == IF ~TermIn(term, acc.fitted_mobility_model)
                THEN Append(acc.fitted_mobility_model,
                            MobilityTerm(term.constituent_array, term.order))
                ELSE acc.fitted_mobility_model
        at == TermIndex(list, term)
        var_name == _vname(acc.vIndex)
    IN  [fitted_mobility_model |->
            [list EXCEPT ![at].expr = Append(@, <<var_name, multiplier>>)],
         symbols |-> DictSet(acc.symbols, var_name, Piecewise(coef, 1, 10000)),
         vIndex |-> acc.vIndex + 1]

\* Line 208: the loop over zip(best_model, best_fit), from pair j on.
RECURSIVE StoreAll(_, _, _, _, _)
StoreAll(acc, model, coefs, multiplier, j) ==
    IF j > Min(Len(model), Len(coefs)) THEN acc
    ELSE StoreAll(StoreTerm(acc, model[j], coefs[j], multiplier),
                  model, coefs, multiplier, j + 1)

Accumulators ==
    [fitted_mobility_model |-> fitted_mobility_model,
     symbols |-> symbols, vIndex |-> vIndex]

InitFit ==
    /\ IdleLS /\ IdleSFG /\ IdleEQ
    /\ datasets \in DatasetOptions
    /\ argComponents \in {{"A", "B"}, {"A", "B", "VA"}}
    /\ Q_test_models \in TestModelOptions
    /\ D0_test_models \in TestModelOptions
    /\ dbSymbols \in DatabaseOptions
    /\ fit_components = {} /\ fitted_mobility_model = <<>> /\ symbols = <<>>
    /\ vIndex = 0 /\ data_key = 0
    /\ site_fractions = <<>> /\ Y = <<>> /\ fitted_models = <<>>
    /\ aiccs = <<>> /\ index = 0 /\ best_model = <<>> /\ best_fit = <<>>
    /\ pc = "start" /\ raised = "none"
    /\ sfgArgs = {} /\ passStart = <<>> /\ chosen = <<>>

\* Lines 115-146: the set-up before the first pass.
FitBegin ==
    /\ pc = "start"
    /\ fit_components' = argComponents \cup {"VA"}
    /\ fitted_mobility_model' = <<>>
    /\ symbols' = <<>>
    /\ vIndex' = find_last_variable(dbSymbols)
    /\ data_key' = 1
    /\ pc' = "collect"
    /\ UNCHANGED <<fitArgs, fitPassLocals, raised, sfgArgs, passStart, chosen,
                   lsVars, sfgVars, eqVars>>

\* Lines 149-185: the records of the pass are collected.
CollectData ==
    /\ pc = "collect"
    /\ LET dt == data_types[data_key]
           data == Search(dt.marker, Len(datasets))
       IN  /\ site_fractions' = RowsAfter(data, Len(data))
           /\ Y' = TargetsAfter(data, Len(data), dt.transform)
           /\ sfgArgs' = sfgArgs \cup GeneratorArgs(data, Len(data))
    /\ passStart' = Accumulators
    /\ pc' = "fit"
    /\ UNCHANGED <<fitArgs, fit_components, fitAccumulators, data_key,
                   fitted_models, aiccs, index, best_model, best_fit, raised,
                   chosen, lsVars, sfgVars, eqVars>>

\* Lines 149-185 when site_fraction_generator raises at value j of record k
\* of the pass (line 182).
CollectDataRaises ==
    /\ pc = "collect"
    /\ LET dt == data_types[data_key]
           data == Search(dt.marker, Len(datasets))
       IN  \E k \in 1..Len(data) :
            /\ ~datasets[data[k]].solver.present
            /\ \E j \in 1..datasets[data[k]].values :
                 site_fractions' =
                     RowsAfter(data, k - 1) \o SubSeq(RowsOf(data[k]), 1, j - 1)
            /\ Y' = TargetsAfter(data, k - 1, dt.transform)
            /\ sfgArgs' = sfgArgs \cup GeneratorArgs(data, k)
    /\ passStart' = Accumulators
    /\ pc' = "raised"
    /\ raised' = "site_fraction_generator"
    /\ UNCHANGED <<fitArgs, fit_components, fitAccumulators, data_key,
                   fitted_models, aiccs, index, best_model, best_fit,
                   chosen, lsVars, sfgVars, eqVars>>

\* np.linalg.lstsq(A, b) accepts A and b: A has two dimensions (one row at
\* least) and as many rows as b has entries.
LstsqAccepts == Len(site_fractions) > 0 /\ Len(site_fractions) = Len(Y)

\* Lines 187-200: every candidate is fitted and the best one picked.
FitModels ==
    /\ pc = "fit"
    /\ LstsqAccepts
    /\ LET test_models == data_types[data_key].test_models IN
       \E scores \in [1..Len(test_models) -> 0..MaxScore] :
           LET fits == [c \in 1..Len(test_models) |->
                           Coefficients(data_key, c, Len(test_models[c]))]
           IN  /\ fitted_models' = fits
               /\ aiccs' = scores
               /\ index' = ArgMin(scores)
               /\ best_model' = test_models[ArgMin(scores)]
               /\ best_fit' = fits[ArgMin(scores)]
    /\ pc' = "store"
    /\ UNCHANGED <<fitArgs, fit_components, fitAccumulators, data_key,
                   site_fractions, Y, raised, sfgArgs, passStart, chosen,
                   lsVars, sfgVars, eqVars>>

\* Lines 187-195 when a candidate's fit raises after some candidates have been
\* fitted and their coefficients stored at once.
FitModelsRaises_afterStoring ==
    /\ pc = "fit"
    /\ LET test_models == data_types[data_key].test_models
           acc == StoreAll(Accumulators, test_models[1],
                           Coefficients(data_key, 1, Len(test_models[1])),
                           data_types[data_key].multiplier, 1)
       IN  /\ fitted_mobility_model' = acc.fitted_mobility_model
           /\ symbols' = acc.symbols
           /\ vIndex' = acc.vIndex
    /\ pc' = "raised"
    /\ raised' = "LinAlgError"
    /\ UNCHANGED <<fitArgs, fit_components, data_key, fitPassLocals,
                   sfgArgs, passStart, chosen, lsVars, sfgVars, eqVars>>

\* Lines 187-195 when a candidate's fit raises: lstsq rejects the shapes
\* (every candidate, so the first), or generate_multiplier or lstsq raises for
\* candidate c after the candidates before it have been fitted.
FitModelsRaises ==
    /\ pc = "fit"
    /\ LET test_models == data_types[data_key].test_models IN
       \/ /\ ~LstsqAccepts
          /\ raised' = "LinAlgError"
          /\ UNCHANGED <<fitted_models, aiccs>>
       \/ /\ LstsqAccepts
          /\ \E c \in 1..Len(test_models) :
             \E scores \in [1..(c - 1) -> 0..MaxScore] :
                /\ fitted_models' =
                     [i \in 1..(c - 1) |->
                         Coefficients(data_key, i, Len(test_models[i]))]
                /\ aiccs' = scores
          /\ raised' \in {"generate_multiplier", "LinAlgError"}
    /\ pc' = "raised"
    /\ UNCHANGED <<fitArgs, fit_components, fitAccumulators, data_key,
                   site_fractions, Y, index, best_model, best_fit,
                   sfgArgs, passStart, chosen, lsVars, sfgVars, eqVars>>

\* Lines 208-217: the best model's coefficients are stored; then the next
\* pass, or the end of the loop of line 148.
StoreBest ==
    /\ pc = "store"
    /\ LET multiplier == data_types[data_key].multiplier
           acc == StoreAll(Accumulators, best_model, best_fit, multiplier, 1)
       IN  /\ fitted_mobility_model' = acc.fitted_mobility_model
           /\ symbols' = acc.symbols
           /\ vIndex' = acc.vIndex
           /\ chosen' = Append(chosen,
                  [key |-> data_types[data_key].key, best_model |-> best_model,
                   best_fit |-> best_fit, multiplier |-> multiplier])
    /\ IF data_key < Len(data_types)
       THEN data_key' = data_key + 1 /\ pc' = "collect"
       ELSE data_key' = data_key /\ pc' = "wrap"
    /\ UNCHANGED <<fitArgs, fit_components, fitPassLocals, raised, sfgArgs,
                   passStart, lsVars, sfgVars, eqVars>>

\* Lines 220-223: every expression is wrapped and the model returned.
FitReturn ==
    /\ pc = "wrap"
    /\ fitted_mobility_model' =
         [i \in 1..Len(fitted_mobility_model) |->
            [fitted_mobility_model[i] EXCEPT !.expr = Piecewise(@, 1, 6000)]]
    /\ pc' = "returned"
    /\ UNCHANGED <<fitArgs, fit_components, symbols, vIndex, data_key,
                   fitPassLocals, raised, sfgArgs, passStart, chosen,
                   lsVars, sfgVars, eqVars>>

NextFit ==
    \/ FitBegin
    \/ CollectData
    \/ CollectDataRaises
    \/ FitModels
    \/ FitModelsRaises
    \/ StoreBest
    \/ FitReturn

SpecFit == InitFit /\ [][NextFit]_vars

-----------------------------------------------------------------------------
(* Claims about fit.                                                       *)

\* The sum an entry of the fitted model holds: its summands <<name, multiplier>>.
SumOf(f) == IF pc = "returned" THEN f.expr.piecewise ELSE f.expr

TermKey(t) == [constituent_array |-> t.constituent_array, order |-> t.order]

\* What a model holds, symbol names resolved: <<key, coefficient, multiplier>>.
Contributions(list, sums, syms) ==
    UNION { { <<TermKey(list[i]), syms[sums[i][j][1]].piecewise, sums[i][j][2]>> :
                j \in 1..Len(sums[i]) } : i \in 1..Len(list) }

\* What the passes selected: <<key, coefficient, multiplier>>.
Selected ==
    UNION { { <<TermKey(chosen[q].best_model[j]), chosen[q].best_fit[j],
                chosen[q].multiplier>> : j \in 1..Len(chosen[q].best_model) } :
            q \in 1..Len(chosen) }

RECURSIVE SumLen(_, _)
SumLen(seqs, n) == IF n = 0 THEN 0 ELSE Len(seqs[n]) + SumLen(seqs, n - 1)

CurrentSums == [i \in 1..Len(fitted_mobility_model) |-> SumOf(fitted_mobility_model[i])]

\* The accumulator run on the same selections, the D0 pass first.
SwappedPasses ==
    LET acc0 == [fitted_mobility_model |-> <<>>, symbols |-> <<>>,
                 vIndex |-> find_last_variable(dbSymbols)]
        acc1 == StoreAll(acc0, chosen[2].best_model, chosen[2].best_fit,
                         chosen[2].multiplier, 1)
    IN  StoreAll(acc1, chosen[1].best_model, chosen[1].best_fit,
                 chosen[1].multiplier, 1)

\* C2: selected terms with equal (constituent_array, order), from different
\* passes or from the same pass, are merged into one entry whose expression is
\* the sum of one fresh symbol times the pass's multiplier per selected pair;
\* no two entries share a key; and processing the D0 pass before the Q pass
\* gives the same entries with the same contributions.
C2_Merged ==
    /\ \A i, j \in 1..Len(fitted_mobility_model) :
         TermEq(fitted_mobility_model[i], fitted_mobility_model[j]) => i = j
    /\ Contributions(fitted_mobility_model, CurrentSums, symbols) = Selected
    /\ SumLen(CurrentSums, Len(CurrentSums))
         = SumLen([q \in 1..Len(chosen) |-> chosen[q].best_model], Len(chosen))
    /\ pc \in {"wrap", "returned"} =>
         LET sw == SwappedPasses
             swSums == [i \in 1..Len(sw.fitted_mobility_model) |->
                           sw.fitted_mobility_model[i].expr]
         IN  /\ Contributions(sw.fitted_mobility_model, swSums, sw.symbols)
                  = Contributions(fitted_mobility_model, CurrentSums, symbols)
             /\ {TermKey(sw.fitted_mobility_model[i]) :
                    i \in 1..Len(sw.fitted_mobility_model)}
                  = {TermKey(fitted_mobility_model[i]) :
                    i \in 1..Len(fitted_mobility_model)}
             /\ Len(sw.fitted_mobility_model) = Len(fitted_mobility_model)

\* A returned model with an entry merged from one pass twice and from the
\* other pass.
C2_Witness ==
    /\ pc = "returned"
    /\ \E i \in 1..Len(fitted_mobility_model) :
         /\ Len(CurrentSums[i]) >= 3
         /\ \E j, k \in 1..Len(CurrentSums[i]) :
              CurrentSums[i][j][2] = "1" /\ CurrentSums[i][k][2] = "T"

\* The names minted so far are those of the indices from the database's index
\* up to vIndex, one summand each, and none is a name of the database.
C3_Names ==
    pc # "start" =>
        LET first == find_last_variable(dbSymbols) IN
        /\ vIndex >= first
        /\ DOMAIN symbols = {_vname(i) : i \in first..(vIndex - 1)}
        /\ Cardinality(DOMAIN symbols) = vIndex - first
        /\ DOMAIN symbols \cap {_vname(i) : i \in dbSymbols} = {}
        /\ SumLen(CurrentSums, Len(CurrentSums)) = Cardinality(DOMAIN symbols)
        /\ UNION { {CurrentSums[i][j][1] : j \in 1..Len(CurrentSums[i])} :
                     i \in 1..Len(CurrentSums) } = DOMAIN symbols
        /\ pc \in {"wrap", "returned"} =>
             Cardinality(DOMAIN symbols)
                 = Len(chosen[1].best_fit) + Len(chosen[2].best_fit)

\* C3: the symbol index starts at the index reported for the database, each
\* index names exactly one (term, coefficient) pair and is then advanced by
\* one, never going back; the symbol table ends with one entry per coefficient
\* of the two winning candidates, and no minted name is a name of the
\* database.
C3_UniqueSymbols ==
    []C3_Names /\ [][vIndex' >= vIndex]_vars

C3_Witness ==
    /\ pc = "returned"
    /\ dbSymbols # {}
    /\ Cardinality(DOMAIN symbols) >= 3

\* A record of the current pass has a solver block whose number of
\* configurations differs from its number of values.
PassHasMismatch ==
    \E r \in 1..Len(datasets) :
        /\ Query(datasets[r], data_types[data_key].marker)
        /\ datasets[r].solver.present
        /\ Len(RowsOf(r)) # datasets[r].values

\* C4: after the normalization step of a pass there are as many feature rows
\* as target values and row i belongs to target i; a record whose solver block
\* lists a number of configurations different from its number of values is
\* reported as a DataAlignmentError.
C4_Alignment ==
    /\ pc = "fit" =>
         /\ Len(site_fractions) = Len(Y)
         /\ \A i \in 1..Len(site_fractions) :
              site_fractions[i].rec = Y[i].rec /\ site_fractions[i].i = Y[i].i
    /\ (pc \in {"fit", "store", "raised"} /\ PassHasMismatch) =>
         (pc = "raised" /\ raised = "DataAlignmentError")

\* C8: the selected candidate has the minimum AICC of the listed candidates,
\* the first-listed one among equals; the coefficients stored are those fitted
\* for that candidate, paired with its terms position by position.
C8_Selection ==
    LET pass == IF pc = "collect" THEN data_key - 1 ELSE data_key
        selected == pc \in {"store", "wrap"} \/ (pc = "collect" /\ data_key = 2)
        stored == pc = "wrap" \/ (pc = "collect" /\ data_key = 2)
    IN  selected =>
        LET test_models == data_types[pass].test_models IN
        /\ index \in 1..Len(test_models)
        /\ Len(aiccs) = Len(test_models)
        /\ \A c \in 1..Len(aiccs) : aiccs[index] <= aiccs[c]
        /\ \A c \in 1..(index - 1) : aiccs[index] < aiccs[c]
        /\ best_model = test_models[index]
        /\ best_fit = fitted_models[index]
        /\ Len(best_fit) = Len(best_model)
        /\ \A j \in 1..Len(best_fit) :
             best_fit[j] = [pass |-> pass, cand |-> index, pos |-> j]
        /\ stored =>
             \A j \in 1..Len(test_models[index]) :
                LET name == _vname(passStart.vIndex + j - 1) IN
                /\ name \in DOMAIN symbols
                /\ symbols[name].piecewise = [pass |-> pass, cand |-> index, pos |-> j]
                /\ \E i \in 1..Len(fitted_mobility_model) :
                     /\ TermEq(fitted_mobility_model[i], test_models[index][j])
                     /\ \E m \in 1..Len(CurrentSums[i]) :
                          CurrentSums[i][m]
                              = <<name, data_types[pass].multiplier>>

\* Two candidates tie for the minimum and the first is stored.
C8_Witness ==
    /\ pc = "wrap"
    /\ Len(aiccs) = 2 /\ aiccs[1] = aiccs[2] /\ index = 1
    /\ Len(chosen) = 2 /\ chosen[1].best_model # chosen[2].best_model

\* C9: the set the dataset filter compares against and every set handed to
\* the feature extractor contain VA.
C9_VacancyInEverySet ==
    /\ pc # "start" => "VA" \in fit_components
    /\ \A c \in sfgArgs : "VA" \in c

\* After a failure the accumulators are as the failed pass found them and hold
\* what the completed passes selected.
C10_Failed ==
    pc = "raised" =>
        /\ Accumulators = passStart
        /\ Contributions(fitted_mobility_model, CurrentSums, symbols) = Selected
        /\ Len(chosen) = data_key - 1

\* C10: a failure of a pass leaves fit at once, nothing runs after it, and the
\* term list, the symbol table and the symbol index are as the failed pass
\* found them - for a failed D0 pass, as the Q pass left them.
C10_FailureIsolated == []C10_Failed /\ [][pc # "raised"]_vars

\* The D0 pass fails in the regression after the Q pass has stored its terms.
C10_Witness ==
    /\ pc = "raised" /\ raised = "LinAlgError" /\ data_key = 2
    /\ Len(fitted_mobility_model) > 0
    /\ Len(fitted_models) > 0 /\ fitted_models[1][1].pass = 2

====
